---- MODULE Spec2Model ----
(***************************************************************************)
(* Model of the tmmt crate: the Mine trait (src/src/mine.rs) and its two   *)
(* implementations, HashMine (src/src/hash_mine.rs) and TwoPtrMine         *)
(* (src/src/two_ptr_mine.rs).  Both engines are driven in lockstep with    *)
(* the same inputs.  Sequences are 1-based here, 0-based in the source.    *)
(***************************************************************************)
EXTENDS Integers, Sequences, FiniteSets, TLC

\* ---------------------------------------------------------------- bounds
\* largest VALIDATION_WINDOW_SIZE explored
MaxW == 3
\* blocks are drawn from 0..MaxVal
MaxVal == 4
\* number of accepted blocks after which the engines are no longer extended
MaxAccepted == 3
\* longest sequence handed to try_extend, and longest continuation after the
\* first VALIDATION_WINDOW_SIZE blocks handed to the constructors
MaxLen == 2

Vals == 0..MaxVal
Ws == 1..MaxW

\* all sequences over S of length lo..hi
SeqsOf(S, lo, hi) == UNION {[1..n -> S] : n \in lo..hi}

\* ------------------------------------------------------- Block and errors
\* 2^8: the addition of Wrapping<u8> wraps around at this value
WrapModulus == 2 ^ 8

\* A block of an integer type (u128, as in the tests) is a natural number.  A
\* block Wrapping(x) of the type Wrapping<u8> is written x - WrapModulus, a
\* negative number, which tells the two block types apart and keeps the
\* order of the type.
Wrapping(x) == x - WrapModulus

\* B: Add<Output = B>: the sum of the integers (no overflow in the range
\* drawn), and the wrapping sum of two Wrapping<u8>
BlockAdd(a, b) ==
    IF a < 0 THEN Wrapping((a + b) % WrapModulus) ELSE a + b

\* Result::Ok(())
OkRes == [kind |-> "Ok"]
\* MineError::InvalidBlock(B, usize)
InvalidBlock(value, position) ==
    [kind |-> "InvalidBlock", value |-> value, position |-> position]
\* MineError::InvalidInitializationBlocksSize
InvalidInitializationBlocksSize == [kind |-> "InvalidInitializationBlocksSize"]
\* a panic (expect on None, Vec::remove out of bounds)
PanicRes == [kind |-> "Panic"]
\* no call has returned yet
NoRes == [kind |-> "None"]

\* --------------------------------------------------------- HashMultiSet
\* a multiset is a function from its distinct elements to positive counts
EmptyMs == [x \in {} |-> 0]
\* HashMultiSet::contains
MsContains(ms, x) == x \in DOMAIN ms
\* HashMultiSet::insert: one more occurrence of x
MsInsert(ms, x) ==
    IF x \in DOMAIN ms THEN [ms EXCEPT ![x] = @ + 1] ELSE ms @@ (x :> 1)
\* MsRemove that drops every occurrence of x
MsRemoveAll(ms, x) ==
    IF x \notin DOMAIN ms THEN ms
    ELSE [y \in (DOMAIN ms) \ {x} |-> ms[y]]

\* HashMultiSet::remove: one occurrence less, nothing if x is absent
MsRemove(ms, x) ==
    IF x \notin DOMAIN ms THEN ms
    ELSE IF ms[x] = 1 THEN [y \in (DOMAIN ms) \ {x} |-> ms[y]]
    ELSE [ms EXCEPT ![x] = @ - 1]

\* --------------------------------------------------------------- HashMine
\* NewSums with the outer loop stopping one block early
RECURSIVE NewSumsShort(_, _, _, _)
NewSumsShort(ib, i, j, sums) ==
    IF i > Len(ib) - 2 THEN sums
    ELSE IF j > Len(ib) THEN NewSumsShort(ib, i + 1, i + 2, sums)
    ELSE NewSumsShort(ib, i, j + 1, MsInsert(sums, BlockAdd(ib[i], ib[j])))

\* the nested loops of HashMine::new: first = ib[i], second = ib[j], j > i
RECURSIVE NewSums(_, _, _, _)
NewSums(ib, i, j, sums) ==
    IF i > Len(ib) - 1 THEN sums
    ELSE IF j > Len(ib) THEN NewSums(ib, i + 1, i + 2, sums)
    ELSE NewSums(ib, i, j + 1, MsInsert(sums, BlockAdd(ib[i], ib[j])))

\* NewSums with the inner loop starting at the block of the outer loop
RECURSIVE NewSumsSelfPairs(_, _, _, _)
NewSumsSelfPairs(ib, i, j, sums) ==
    IF i > Len(ib) - 1 THEN sums
    ELSE IF j > Len(ib) THEN NewSumsSelfPairs(ib, i + 1, i + 1, sums)
    ELSE NewSumsSelfPairs(ib, i, j + 1, MsInsert(sums, BlockAdd(ib[i], ib[j])))

\* HashMine::new that pairs a block with itself
HashNewSelfPairs(initialization_blocks) ==
    [impl |-> "HashMine",
     validation_blocks |-> initialization_blocks,
     block_pair_sums |-> NewSumsSelfPairs(initialization_blocks, 1, 1, EmptyMs),
     total_blocks |-> Len(initialization_blocks)]

\* HashMine::new that counts only the blocks validated so far
HashNewCountZero(initialization_blocks) ==
    [impl |-> "HashMine",
     validation_blocks |-> initialization_blocks,
     block_pair_sums |-> NewSums(initialization_blocks, 1, 2, EmptyMs),
     total_blocks |-> 0]

HashNew(initialization_blocks) ==
    [impl |-> "HashMine",
     validation_blocks |-> initialization_blocks,
     block_pair_sums |-> NewSums(initialization_blocks, 1, 2, EmptyMs),
     total_blocks |-> Len(initialization_blocks)]

\* UpdateSums that never removes the sums of the evicted block
RECURSIVE UpdateSumsKeepOld(_, _, _, _)
UpdateSumsKeepOld(sums, rest, old_block, new_block) ==
    IF rest = <<>> THEN sums
    ELSE UpdateSumsKeepOld(MsInsert(sums, BlockAdd(new_block, Head(rest))),
                           Tail(rest), old_block, new_block)

\* the update loop of HashMine::try_extend_one over the blocks left after
\* pop_front: remove old_block + block, insert new_block + block
RECURSIVE UpdateSums(_, _, _, _)
UpdateSums(sums, rest, old_block, new_block) ==
    IF rest = <<>> THEN sums
    ELSE UpdateSums(
           MsInsert(MsRemove(sums, BlockAdd(old_block, Head(rest))),
                    BlockAdd(new_block, Head(rest))),
           Tail(rest), old_block, new_block)

\* HashTryExtendOne reporting total_blocks instead of total_blocks + 1
HashTryExtendOneOffByOne(m, new_block) ==
    IF ~MsContains(m.block_pair_sums, new_block)
    THEN [mine |-> m, res |-> InvalidBlock(new_block, m.total_blocks)]
    ELSE IF m.validation_blocks = <<>>
    THEN [mine |-> m, res |-> PanicRes]
    ELSE LET old_block == Head(m.validation_blocks)
             rest == Tail(m.validation_blocks)
         IN [mine |-> [impl |-> "HashMine",
                       validation_blocks |-> Append(rest, new_block),
                       block_pair_sums |->
                           UpdateSums(m.block_pair_sums, rest, old_block, new_block),
                       total_blocks |-> m.total_blocks + 1],
             res |-> OkRes]

\* HashTryExtendOne that counts a rejected block
HashTryExtendOneCountsRejected(m, new_block) ==
    IF ~MsContains(m.block_pair_sums, new_block)
    THEN [mine |-> [m EXCEPT !.total_blocks = @ + 1],
          res |-> InvalidBlock(new_block, m.total_blocks + 1)]
    ELSE IF m.validation_blocks = <<>>
    THEN [mine |-> m, res |-> PanicRes]
    ELSE LET old_block == Head(m.validation_blocks)
             rest == Tail(m.validation_blocks)
         IN [mine |-> [impl |-> "HashMine",
                       validation_blocks |-> Append(rest, new_block),
                       block_pair_sums |->
                           UpdateSums(m.block_pair_sums, rest, old_block, new_block),
                       total_blocks |-> m.total_blocks + 1],
             res |-> OkRes]

HashTryExtendOne(m, new_block) ==
    IF ~MsContains(m.block_pair_sums, new_block)
    THEN [mine |-> m, res |-> InvalidBlock(new_block, m.total_blocks + 1)]
    ELSE IF m.validation_blocks = <<>>
    THEN [mine |-> m, res |-> PanicRes]
    ELSE LET old_block == Head(m.validation_blocks)
             rest == Tail(m.validation_blocks)
         IN [mine |-> [impl |-> "HashMine",
                       validation_blocks |-> Append(rest, new_block),
                       block_pair_sums |->
                           UpdateSums(m.block_pair_sums, rest, old_block, new_block),
                       total_blocks |-> m.total_blocks + 1],
             res |-> OkRes]

\* ------------------------------------------------------------- TwoPtrMine
\* InsertSorted with the comparison reversed
RECURSIVE InsertSortedDescending(_, _)
InsertSortedDescending(s, x) ==
    IF s = <<>> THEN <<x>>
    ELSE IF x >= Head(s) THEN <<x>> \o s
    ELSE <<Head(s)>> \o InsertSortedDescending(Tail(s), x)

\* slice::sort_unstable: the non-decreasing arrangement of s
RECURSIVE InsertSorted(_, _)
InsertSorted(s, x) ==
    IF s = <<>> THEN <<x>>
    ELSE IF x <= Head(s) THEN <<x>> \o s
    ELSE <<Head(s)>> \o InsertSorted(Tail(s), x)

RECURSIVE SortUnstable(_)
SortUnstable(s) ==
    IF s = <<>> THEN <<>> ELSE InsertSorted(SortUnstable(Tail(s)), Head(s))

\* TwoPtrMine::new that leaves the copy in window order
TwoPtrNewUnsorted(initialization_blocks) ==
    [impl |-> "TwoPtrMine",
     validation_blocks |-> initialization_blocks,
     ordered_validation_blocks |-> initialization_blocks,
     total_blocks |-> Len(initialization_blocks)]

\* TwoPtrMine::new that sorts before it copies the window
TwoPtrNewSortedWindow(initialization_blocks) ==
    [impl |-> "TwoPtrMine",
     validation_blocks |-> SortUnstable(initialization_blocks),
     ordered_validation_blocks |-> SortUnstable(initialization_blocks),
     total_blocks |-> Len(initialization_blocks)]

TwoPtrNew(initialization_blocks) ==
    [impl |-> "TwoPtrMine",
     validation_blocks |-> initialization_blocks,
     ordered_validation_blocks |-> SortUnstable(initialization_blocks),
     total_blocks |-> Len(initialization_blocks)]

\* Scan without the i == j return: it runs until an iterator is exhausted
RECURSIVE ScanNoMeetCheck(_, _, _, _, _)
ScanNoMeetCheck(obs, i, j, new_block, moves) ==
    IF i > Len(obs) \/ j < 1
    THEN [exit |-> "none", i |-> i, j |-> j, moves |-> moves]
    ELSE IF BlockAdd(obs[i], obs[j]) < new_block
    THEN ScanNoMeetCheck(obs, i + 1, j, new_block, moves + 1)
    ELSE IF BlockAdd(obs[i], obs[j]) = new_block
    THEN [exit |-> "break", i |-> i, j |-> j, moves |-> moves]
    ELSE ScanNoMeetCheck(obs, i, j - 1, new_block, moves + 1)

\* Scan that gives up only once the pointers have crossed, so that a block
\* is paired with itself
RECURSIVE ScanSameSlot(_, _, _, _, _)
ScanSameSlot(obs, i, j, new_block, moves) ==
    IF i > Len(obs) \/ j < 1
    THEN [exit |-> "none", i |-> i, j |-> j, moves |-> moves]
    ELSE IF i > j
    THEN [exit |-> "err", i |-> i, j |-> j, moves |-> moves]
    ELSE IF BlockAdd(obs[i], obs[j]) < new_block
    THEN ScanSameSlot(obs, i + 1, j, new_block, moves + 1)
    ELSE IF BlockAdd(obs[i], obs[j]) = new_block
    THEN [exit |-> "break", i |-> i, j |-> j, moves |-> moves]
    ELSE ScanSameSlot(obs, i, j - 1, new_block, moves + 1)

\* the while-let loop of TwoPtrMine::try_extend_one.  min_item is
\* Some((i, obs[i])) while i <= Len(obs) and None after; max_item is
\* Some((j, obs[j])) while j >= 1 and None after.  moves counts the calls of
\* next() made inside the loop.
RECURSIVE Scan(_, _, _, _, _)
Scan(obs, i, j, new_block, moves) ==
    IF i > Len(obs) \/ j < 1
    THEN [exit |-> "none", i |-> i, j |-> j, moves |-> moves]
    ELSE IF i = j
    THEN [exit |-> "err", i |-> i, j |-> j, moves |-> moves]
    ELSE IF BlockAdd(obs[i], obs[j]) < new_block
    THEN Scan(obs, i + 1, j, new_block, moves + 1)
    ELSE IF BlockAdd(obs[i], obs[j]) = new_block
    THEN [exit |-> "break", i |-> i, j |-> j, moves |-> moves]
    ELSE Scan(obs, i, j - 1, new_block, moves + 1)

\* slice::binary_search on a sorted slice: Ok(idx) for any idx that holds x
\* (which one is unspecified), else Err(insertion index)
BinarySearch(s, x) ==
    LET hits == {k \in 1..Len(s) : s[k] = x}
    IN IF hits # {}
       THEN {[found |-> TRUE, idx |-> k] : k \in hits}
       ELSE {[found |-> FALSE,
              idx |-> 1 + Cardinality({k \in 1..Len(s) : s[k] < x})]}

\* Vec::remove that drops every element equal to the one at idx
VecRemoveAllEqual(s, idx) == SelectSeq(s, LAMBDA y : y # s[idx])

\* Vec::remove(idx)
VecRemove(s, idx) == SubSeq(s, 1, idx - 1) \o SubSeq(s, idx + 1, Len(s))
\* Vec::insert that ignores the index and pushes at the end
VecInsertAtEnd(s, idx, x) == Append(s, x)
\* Vec::insert(idx, x)
VecInsert(s, idx, x) == SubSeq(s, 1, idx - 1) \o <<x>> \o SubSeq(s, idx, Len(s))

\* TwoPtrUpdate that leaves the sorted copy as it was
TwoPtrUpdateStaleCopy(m, new_block) ==
    IF m.validation_blocks = <<>>
    THEN {[mine |-> m, res |-> PanicRes]}
    ELSE {[mine |-> [m EXCEPT !.validation_blocks =
                                  Append(Tail(m.validation_blocks), new_block),
                              !.total_blocks = m.total_blocks + 1],
           res |-> OkRes]}

\* TwoPtrUpdate that puts the new block at the front of the window
TwoPtrUpdatePushFront(m, new_block) ==
    IF m.validation_blocks = <<>>
    THEN {[mine |-> m, res |-> PanicRes]}
    ELSE LET old_block == Head(m.validation_blocks)
             vb == <<new_block>> \o Tail(m.validation_blocks)
         IN UNION {
              IF r.idx > Len(m.ordered_validation_blocks)
              THEN {[mine |-> [m EXCEPT !.validation_blocks = vb],
                     res |-> PanicRes]}
              ELSE LET removed == VecRemove(m.ordered_validation_blocks, r.idx)
                   IN {[mine |-> [impl |-> "TwoPtrMine",
                                  validation_blocks |-> vb,
                                  ordered_validation_blocks |->
                                      VecInsert(removed, q.idx, new_block),
                                  total_blocks |-> m.total_blocks + 1],
                        res |-> OkRes] : q \in BinarySearch(removed, new_block)}
              : r \in BinarySearch(m.ordered_validation_blocks, old_block)}

\* the update path of TwoPtrMine::try_extend_one, after the loop: the set of
\* outcomes the unspecified binary_search results allow
TwoPtrUpdate(m, new_block) ==
    IF m.validation_blocks = <<>>
    THEN {[mine |-> m, res |-> PanicRes]}
    ELSE LET old_block == Head(m.validation_blocks)
             vb == Append(Tail(m.validation_blocks), new_block)
         IN UNION {
              IF r.idx > Len(m.ordered_validation_blocks)
              THEN {[mine |-> [m EXCEPT !.validation_blocks = vb],
                     res |-> PanicRes]}
              ELSE LET removed == VecRemove(m.ordered_validation_blocks, r.idx)
                   IN {[mine |-> [impl |-> "TwoPtrMine",
                                  validation_blocks |-> vb,
                                  ordered_validation_blocks |->
                                      VecInsert(removed, q.idx, new_block),
                                  total_blocks |-> m.total_blocks + 1],
                        res |-> OkRes] : q \in BinarySearch(removed, new_block)}
              : r \in BinarySearch(m.ordered_validation_blocks, old_block)}

\* TwoPtrTryExtendOne that counts a rejected block
TwoPtrTryExtendOneCountsRejected(m, new_block) ==
    LET obs == m.ordered_validation_blocks
        scan == Scan(obs, 1, Len(obs), new_block, 0)
    IN IF scan.exit = "err"
       THEN {[mine |-> [m EXCEPT !.total_blocks = @ + 1],
              res |-> InvalidBlock(new_block, m.total_blocks + 1)]}
       ELSE TwoPtrUpdate(m, new_block)

TwoPtrTryExtendOne(m, new_block) ==
    LET obs == m.ordered_validation_blocks
        scan == Scan(obs, 1, Len(obs), new_block, 0)
    IN IF scan.exit = "err"
       THEN {[mine |-> m, res |-> InvalidBlock(new_block, m.total_blocks + 1)]}
       ELSE TwoPtrUpdate(m, new_block)

\* ------------------------------------------------------------- trait Mine
\* Mine::new, dispatched on the implementing type
new(impl, initialization_blocks) ==
    IF impl = "HashMine" THEN HashNew(initialization_blocks)
    ELSE TwoPtrNew(initialization_blocks)

\* Mine::try_extend_one, dispatched on the implementing type: the set of
\* possible outcomes [mine, res]
try_extend_one(m, new_block) ==
    IF m.impl = "HashMine" THEN {HashTryExtendOne(m, new_block)}
    ELSE TwoPtrTryExtendOne(m, new_block)

\* try_extend_from that drops the result of try_extend_one and goes on
RECURSIVE try_extend_from_ignoring(_, _, _)
try_extend_from_ignoring(m, blocks, consumed) ==
    IF blocks = <<>> THEN {[mine |-> m, res |-> OkRes, consumed |-> consumed]}
    ELSE UNION {try_extend_from_ignoring(out.mine, Tail(blocks), consumed + 1)
                  : out \in try_extend_one(m, Head(blocks))}

\* Mine::try_extend: the for loop with `?`.  consumed counts the blocks
\* pulled from the iterator.
RECURSIVE try_extend_from(_, _, _)
try_extend_from(m, blocks, consumed) ==
    IF blocks = <<>> THEN {[mine |-> m, res |-> OkRes, consumed |-> consumed]}
    ELSE UNION {
           IF out.res.kind # "Ok"
           THEN {[mine |-> out.mine, res |-> out.res, consumed |-> consumed + 1]}
           ELSE try_extend_from(out.mine, Tail(blocks), consumed + 1)
           : out \in try_extend_one(m, Head(blocks))}

\* try_extend that restores the engine when a block is rejected
try_extend_rollback(m, blocks) ==
    {IF o.res.kind # "Ok" THEN [o EXCEPT !.mine = m] ELSE o :
       o \in try_extend_from(m, blocks, 0)}

\* try_extend that collects its whole input before the loop
try_extend_eager(m, blocks) ==
    {[o EXCEPT !.consumed = Len(blocks)] : o \in try_extend_from(m, blocks, 0)}

try_extend(m, blocks) == try_extend_from(m, blocks, 0)

\* TryIntoArray that also converts a shorter sequence
TryIntoArrayAtMost(blocks, n) ==
    IF Len(blocks) <= n THEN [ok |-> TRUE, array |-> blocks]
    ELSE [ok |-> FALSE, array |-> <<>>]

\* <[B; VALIDATION_WINDOW_SIZE] as TryFrom<Vec<B>>>::try_from (also for
\* slices): Ok only when the length is exactly the array length
TryIntoArray(blocks, n) ==
    IF Len(blocks) = n THEN [ok |-> TRUE, array |-> blocks]
    ELSE [ok |-> FALSE, array |-> <<>>]

\* a value that stands for "no engine was returned"
NoMine == [impl |-> "None"]

\* Mine::try_new
try_new(impl, n, initialization_blocks) ==
    LET conv == TryIntoArray(initialization_blocks, n)
    IN IF ~conv.ok
       THEN [mine |-> NoMine, res |-> InvalidInitializationBlocksSize]
       ELSE [mine |-> new(impl, conv.array), res |-> OkRes]

\* the `for _ in 0..n` loop of take_with_remainder over a finite iterator
RECURSIVE take_loop(_, _, _)
take_loop(iter, k, taken) ==
    IF k = 0 THEN [taken |-> taken, remainder |-> iter]
    ELSE IF iter # <<>>
    THEN take_loop(Tail(iter), k - 1, Append(taken, Head(iter)))
    ELSE take_loop(iter, k - 1, taken)

\* take_with_remainder that pulls one block too many and drops it
take_with_remainder_skip(iter, n) ==
    LET r == take_loop(iter, n, <<>>)
    IN [taken |-> r.taken,
        remainder |-> IF r.remainder = <<>> THEN <<>> ELSE Tail(r.remainder)]

take_with_remainder(iter, n) == take_loop(iter, n, <<>>)

\* Mine::try_create_and_extend: the set of possible outcomes; mine is the
\* local engine at the time of return (dropped by the code)
try_create_and_extend(impl, n, blocks) ==
    LET tr == take_with_remainder(blocks, n)
        conv == TryIntoArray(tr.taken, n)
    IN IF ~conv.ok
       THEN {[mine |-> NoMine, res |-> InvalidInitializationBlocksSize,
              consumed |-> 0]}
       ELSE try_extend(new(impl, conv.array), tr.remainder)

\* ------------------------------------------------------------------ state
VARIABLES
    W,        \* VALIDATION_WINDOW_SIZE of both engines
    hm,       \* the HashMine
    tm,       \* the TwoPtrMine
    hres,     \* what the last call returned on the HashMine
    tres,     \* what the last call returned on the TwoPtrMine
    hpre,     \* the HashMine before the last call
    tpre,     \* the TwoPtrMine before the last call
    op,       \* the last operation called
    arg,      \* its argument, as a sequence of blocks
    hstream,  \* initial blocks followed by the blocks the HashMine accepted
    tstream,  \* initial blocks followed by the blocks the TwoPtrMine accepted
    hcons,    \* blocks the last call pulled from its input, HashMine
    tcons,    \* blocks the last call pulled from its input, TwoPtrMine
    again,    \* the last call repeats a rejected try_extend_one, same value
    hclone,   \* a clone of the HashMine
    tclone,   \* a clone of the TwoPtrMine
    hcres,    \* what the last call on the HashMine clone returned
    tcres,    \* what the last call on the TwoPtrMine clone returned
    cstate    \* "none": no clone; "cloned": nothing called since clone();
              \* "behind": the originals got one call more than the clones;
              \* "level": the clones got the same calls as the originals

cloneVars == <<hclone, tclone, hcres, tcres, cstate>>

vars == <<W, hm, tm, hres, tres, hpre, tpre, op, arg, hstream, tstream,
          hcons, tcons, again, hclone, tclone, hcres, tcres, cstate>>

\* no clone has been made
NoClone ==
    /\ hclone = NoMine
    /\ tclone = NoMine
    /\ hcres = NoRes
    /\ tcres = NoRes
    /\ cstate = "none"

\* blocks of a call that were accepted, given its result and what it consumed
AcceptedOf(blocks, res, consumed) ==
    IF res.kind = "Ok" THEN SubSeq(blocks, 1, consumed)
    ELSE SubSeq(blocks, 1, consumed - 1)

\* both engines constructed by new from the same initialization blocks
Init ==
    /\ W \in Ws
    /\ \E ib \in [1..W -> Vals] :
         /\ hm = new("HashMine", ib)
         /\ tm = new("TwoPtrMine", ib)
         /\ arg = ib
         /\ hstream = ib
         /\ tstream = ib
    /\ hpre = hm
    /\ tpre = tm
    /\ hres = NoRes
    /\ tres = NoRes
    /\ op = "new"
    /\ hcons = 0
    /\ tcons = 0
    /\ again = FALSE
    /\ NoClone

\* a call on the originals: the clones are not touched, and they are one
\* call behind afterwards
CallOnOriginals ==
    /\ cstate # "behind"
    /\ cstate' = IF cstate = "none" THEN "none" ELSE "behind"
    /\ UNCHANGED <<hclone, tclone, hcres, tcres>>

\* the call try_extend_one(v) on each engine
TryExtendOneWith(v) ==
    /\ hm.impl # "None" /\ tm.impl # "None"
    /\ hres.kind # "Panic" /\ tres.kind # "Panic"
    /\ hm.total_blocks < W + MaxAccepted
    /\ tm.total_blocks < W + MaxAccepted
    /\ \E hout \in try_extend_one(hm, v), tout \in try_extend_one(tm, v) :
         /\ hm' = hout.mine
         /\ tm' = tout.mine
         /\ hres' = hout.res
         /\ tres' = tout.res
         /\ arg' = <<v>>
         /\ hstream' = IF hout.res.kind = "Ok" THEN Append(hstream, v) ELSE hstream
         /\ tstream' = IF tout.res.kind = "Ok" THEN Append(tstream, v) ELSE tstream
         /\ again' = /\ op = "try_extend_one"
                     /\ arg = <<v>>
                     /\ (hres.kind = "InvalidBlock" \/ tres.kind = "InvalidBlock")
    /\ hpre' = hm
    /\ tpre' = tm
    /\ op' = "try_extend_one"
    /\ hcons' = 1
    /\ tcons' = 1
    /\ CallOnOriginals
    /\ UNCHANGED W

\* one call of try_extend_one(v) on each engine
TryExtendOne == \E v \in Vals : TryExtendOneWith(v)

\* the call try_extend(blocks) on each engine
TryExtendWith(blocks) ==
    /\ hm.impl # "None" /\ tm.impl # "None"
    /\ hres.kind # "Panic" /\ tres.kind # "Panic"
    /\ \E hout \in try_extend(hm, blocks), tout \in try_extend(tm, blocks) :
         /\ hm' = hout.mine
         /\ tm' = tout.mine
         /\ hres' = hout.res
         /\ tres' = tout.res
         /\ hcons' = hout.consumed
         /\ tcons' = tout.consumed
         /\ hstream' = hstream \o AcceptedOf(blocks, hout.res, hout.consumed)
         /\ tstream' = tstream \o AcceptedOf(blocks, tout.res, tout.consumed)
    /\ arg' = blocks
    /\ hpre' = hm
    /\ tpre' = tm
    /\ op' = "try_extend"
    /\ again' = FALSE
    /\ CallOnOriginals
    /\ UNCHANGED W

\* one call of try_extend(blocks) on each engine
TryExtend ==
    \E blocks \in SeqsOf(Vals, 0, MaxLen) :
       /\ hm.total_blocks + Len(blocks) <= W + MaxAccepted
       /\ tm.total_blocks + Len(blocks) <= W + MaxAccepted
       /\ TryExtendWith(blocks)

Next == TryExtendOne \/ TryExtend

Spec == Init /\ [][Next]_vars

\* ------------------------------------------ the constructors, on an input
\* a sequence of blocks is given and no engine exists yet
CtorInit ==
    /\ W \in Ws
    /\ arg \in SeqsOf(Vals, 0, W + MaxLen)
    /\ op = "input"
    /\ hm = NoMine
    /\ tm = NoMine
    /\ hpre = NoMine
    /\ tpre = NoMine
    /\ hres = NoRes
    /\ tres = NoRes
    /\ hstream = <<>>
    /\ tstream = <<>>
    /\ hcons = 0
    /\ tcons = 0
    /\ again = FALSE
    /\ NoClone

\* HashMine::try_new(arg) and TwoPtrMine::try_new(arg)
TryNew ==
    /\ op = "input"
    /\ LET hout == try_new("HashMine", W, arg)
           tout == try_new("TwoPtrMine", W, arg)
       IN /\ hm' = hout.mine
          /\ tm' = tout.mine
          /\ hres' = hout.res
          /\ tres' = tout.res
          /\ hstream' = IF hout.res.kind = "Ok" THEN hout.mine.validation_blocks ELSE <<>>
          /\ tstream' = IF tout.res.kind = "Ok" THEN tout.mine.validation_blocks ELSE <<>>
    /\ op' = "try_new"
    /\ UNCHANGED <<W, arg, hpre, tpre, hcons, tcons, again>>
    /\ UNCHANGED cloneVars

\* HashMine::try_create_and_extend(arg) and TwoPtrMine::try_create_and_extend(arg)
TryCreateAndExtend ==
    /\ op = "input"
    /\ \E hout \in try_create_and_extend("HashMine", W, arg),
          tout \in try_create_and_extend("TwoPtrMine", W, arg) :
         /\ hm' = hout.mine
         /\ tm' = tout.mine
         /\ hres' = hout.res
         /\ tres' = tout.res
         /\ hcons' = hout.consumed
         /\ tcons' = tout.consumed
         /\ hstream' = IF hout.mine.impl = "None" THEN <<>>
                       ELSE take_with_remainder(arg, W).taken
                            \o AcceptedOf(take_with_remainder(arg, W).remainder,
                                          hout.res, hout.consumed)
         /\ tstream' = IF tout.mine.impl = "None" THEN <<>>
                       ELSE take_with_remainder(arg, W).taken
                            \o AcceptedOf(take_with_remainder(arg, W).remainder,
                                          tout.res, tout.consumed)
    /\ op' = "try_create_and_extend"
    /\ UNCHANGED <<W, arg, hpre, tpre, again>>
    /\ UNCHANGED cloneVars

CtorNext == TryNew \/ TryCreateAndExtend

CtorSpec == CtorInit /\ [][CtorNext]_vars

\* ------------------------------------------------------------------ clones
\* a clone that is rebuilt by new from the window of the original
CloneMineRebuilt(m) == new(m.impl, m.validation_blocks)

\* #[derive(Clone)]: every field is cloned, and VecDeque, Vec and
\* HashMultiSet clone their contents
CloneMine(m) == m

\* hm.clone() and tm.clone()
Clone ==
    /\ cstate = "none"
    /\ hm.impl # "None" /\ tm.impl # "None"
    /\ hres.kind # "Panic" /\ tres.kind # "Panic"
    /\ hclone' = CloneMine(hm)
    /\ tclone' = CloneMine(tm)
    /\ hcres' = NoRes
    /\ tcres' = NoRes
    /\ cstate' = "cloned"
    /\ UNCHANGED <<W, hm, tm, hres, tres, hpre, tpre, op, arg, hstream,
                   tstream, hcons, tcons, again>>

\* the outcomes [mine, res] of the call (o, a) on the engine m
CallOutcomes(m, o, a) ==
    IF o = "try_extend_one" THEN try_extend_one(m, a[1])
    ELSE {[mine |-> out.mine, res |-> out.res] : out \in try_extend(m, a)}

\* the call the originals got last, on each clone
CloneCall ==
    /\ cstate = "behind"
    /\ \E hout \in CallOutcomes(hclone, op, arg),
          tout \in CallOutcomes(tclone, op, arg) :
         /\ hclone' = hout.mine
         /\ tclone' = tout.mine
         /\ hcres' = hout.res
         /\ tcres' = tout.res
    /\ cstate' = "level"
    /\ UNCHANGED <<W, hm, tm, hres, tres, hpre, tpre, op, arg, hstream,
                   tstream, hcons, tcons, again>>

CloneNext == TryExtendOne \/ TryExtend \/ Clone \/ CloneCall

\* largest VALIDATION_WINDOW_SIZE of the engines that are cloned
MaxCloneW == 2

\* engines constructed by new, of window size at most MaxCloneW
CloneInit == Init /\ W <= MaxCloneW

CloneSpec == CloneInit /\ [][CloneNext]_vars

\* ------------------------------------------------ the stream of smoke2
\* array::from_fn(|i| i + 1): 1, 2, ..., n
Iota(n) == [i \in 1..n |-> i]

\* largest VALIDATION_WINDOW_SIZE of the smoke2 stream
MaxSmokeW == 9

\* engines of window size W initialised with 1, 2, ..., W
SmokeInit ==
    /\ W \in 2..MaxSmokeW
    /\ hm = new("HashMine", Iota(W))
    /\ tm = new("TwoPtrMine", Iota(W))
    /\ arg = Iota(W)
    /\ hstream = Iota(W)
    /\ tstream = Iota(W)
    /\ hpre = hm
    /\ tpre = tm
    /\ hres = NoRes
    /\ tres = NoRes
    /\ op = "new"
    /\ hcons = 0
    /\ tcons = 0
    /\ again = FALSE
    /\ NoClone

\* try_extend with the next n blocks of 3, 5, 7, ..., 2W-1
SmokeExtend ==
    /\ hres.kind \in {"None", "Ok"} /\ tres.kind \in {"None", "Ok"}
    /\ LET done == hm.total_blocks - W
       IN \E n \in 1..(W - 1 - done) :
            TryExtendWith([i \in 1..n |-> 2 * (done + i) + 1])

SmokeNext == SmokeExtend

SmokeSpec == SmokeInit /\ [][SmokeNext]_vars

\* ------------------------------------------------ the benchmark's streams
\* the number of generated blocks after the initial ones
MaxGen == 4

RECURSIVE generate_loop(_, _, _)
\* the while loop of generate_input_blocks: input_blocks holds the blocks
\* written so far (the index i of the code is Len(input_blocks)); a read of
\* a slot not yet written gives the 0 the array was filled with
generate_loop(input_blocks, validation_window_size, size) ==
    IF Len(input_blocks) >= size
    THEN input_blocks
    ELSE LET i == Len(input_blocks) + 1
             at(k) == IF k < i THEN input_blocks[k] ELSE 0
         IN generate_loop(
                Append(input_blocks,
                       BlockAdd(at(i - validation_window_size),
                                at(i - validation_window_size + 1))),
                validation_window_size, size)

\* generate_input_blocks::<INITIAL_BLOCKS_SIZE, INPUT_BLOCKS_SIZE>(initial_blocks)
generate_input_blocks(initial_blocks, size) ==
    generate_loop(initial_blocks, Len(initial_blocks), size)

\* the input of many_blocks_validation: a generated stream, W >= 2
GenInit ==
    /\ W \in 2..MaxW
    /\ \E ib \in [1..W -> Vals], n \in 0..MaxGen :
         arg = generate_input_blocks(ib, W + n)
    /\ op = "input"
    /\ hm = NoMine
    /\ tm = NoMine
    /\ hpre = NoMine
    /\ tpre = NoMine
    /\ hres = NoRes
    /\ tres = NoRes
    /\ hstream = <<>>
    /\ tstream = <<>>
    /\ hcons = 0
    /\ tcons = 0
    /\ again = FALSE
    /\ NoClone

GenNext == TryCreateAndExtend

GenSpec == GenInit /\ [][GenNext]_vars

\* ----------------------------------------- a block type that wraps around
\* the blocks drawn are the WrapSpan + 1 smallest and the WrapSpan largest
\* values of the type
WrapSpan == 2

WrapVals ==
    {Wrapping(x) :
        x \in (0..WrapSpan) \cup ((WrapModulus - WrapSpan)..(WrapModulus - 1))}

\* both engines over Wrapping<u8>, constructed by new from the same blocks
WrapInit ==
    /\ W \in Ws
    /\ \E ib \in [1..W -> WrapVals] :
         /\ hm = new("HashMine", ib)
         /\ tm = new("TwoPtrMine", ib)
         /\ arg = ib
         /\ hstream = ib
         /\ tstream = ib
    /\ hpre = hm
    /\ tpre = tm
    /\ hres = NoRes
    /\ tres = NoRes
    /\ op = "new"
    /\ hcons = 0
    /\ tcons = 0
    /\ again = FALSE
    /\ NoClone

\* one call of try_extend_one(v) on each engine, v a Wrapping<u8>
WrapTryExtendOne == \E v \in WrapVals : TryExtendOneWith(v)

WrapNext == WrapTryExtendOne

WrapSpec == WrapInit /\ [][WrapNext]_vars

\* ------------------------------------- TwoPtrMine alone, window size from 0
\* a TwoPtrMine constructed by new; no HashMine (HashMine::new panics on
\* VALIDATION_WINDOW_SIZE = 0)
TwoPtrInit ==
    /\ W \in 0..MaxW
    /\ \E ib \in [1..W -> Vals] :
         /\ tm = new("TwoPtrMine", ib)
         /\ arg = ib
         /\ tstream = ib
    /\ hm = NoMine
    /\ hstream = <<>>
    /\ hpre = hm
    /\ tpre = tm
    /\ hres = NoRes
    /\ tres = NoRes
    /\ op = "new"
    /\ hcons = 0
    /\ tcons = 0
    /\ again = FALSE
    /\ NoClone

\* one call of try_extend_one(v) on the TwoPtrMine
TwoPtrOnlyTryExtendOne ==
    /\ tm.impl # "None"
    /\ tres.kind # "Panic"
    /\ tm.total_blocks < W + MaxAccepted
    /\ \E v \in Vals :
         \E tout \in try_extend_one(tm, v) :
           /\ tm' = tout.mine
           /\ tres' = tout.res
           /\ arg' = <<v>>
           /\ tstream' = IF tout.res.kind = "Ok" THEN Append(tstream, v) ELSE tstream
           /\ again' = (op = "try_extend_one" /\ arg = <<v>>
                        /\ tres.kind = "InvalidBlock")
    /\ tpre' = tm
    /\ op' = "try_extend_one"
    /\ tcons' = 1
    /\ UNCHANGED <<W, hm, hres, hpre, hstream, hcons>>
    /\ UNCHANGED cloneVars

TwoPtrNext == TwoPtrOnlyTryExtendOne

TwoPtrSpec == TwoPtrInit /\ [][TwoPtrNext]_vars

\* ------------------------------------------------------------- properties
\* value is the sum of the blocks at two distinct positions of window
HasPairSum(window, value) ==
    \E i, j \in 1..Len(window) : i # j /\ window[i] + window[j] = value

\* the last n elements of s
LastN(s, n) == SubSeq(s, Len(s) - n + 1, Len(s))

\* the engines reachable from m by offering every block of blocks, in order,
\* to try_extend_one, every one of them being accepted
RECURSIVE Run(_, _)
Run(m, blocks) ==
    IF blocks = <<>> THEN {m}
    ELSE UNION {Run(out.mine, Tail(blocks)) :
                  out \in {o \in try_extend_one(m, Head(blocks)) : o.res.kind = "Ok"}}

\* C1: fed the same values, HashMine and TwoPtrMine return the same result at
\* every call (Ok, or InvalidBlock with the same value and position) and hold
\* the same window after every call.
C1_Equivalence ==
    /\ hres = tres
    /\ hm.validation_blocks = tm.validation_blocks

\* both engines rejected a value after having accepted at least one
C1_Witness ==
    /\ op = "try_extend_one"
    /\ hres.kind = "InvalidBlock" /\ tres.kind = "InvalidBlock"
    /\ Len(hstream) > W /\ Len(tstream) > W

\* C2: HashMine::try_extend_one(v) returns Ok iff two distinct window
\* positions sum to v, and InvalidBlock otherwise.
C2_HashExact ==
    op = "try_extend_one" =>
        /\ (hres = OkRes) <=> HasPairSum(hpre.validation_blocks, arg[1])
        /\ hres # OkRes => hres.kind = "InvalidBlock"

\* HashMine rejected a value that is in the window but is not a pair sum
C2_Witness ==
    /\ op = "try_extend_one"
    /\ \E k \in 1..W : hpre.validation_blocks[k] = arg[1]
    /\ ~HasPairSum(hpre.validation_blocks, arg[1])
    /\ hres.kind = "InvalidBlock"
    /\ Len(hstream) > W

\* C3: TwoPtrMine::try_extend_one(v) returns Ok iff two distinct window
\* positions sum to v: the scan misses no pair and invents none.
C3_TwoPtrExact ==
    op = "try_extend_one" =>
        /\ (tres = OkRes) <=> HasPairSum(tpre.validation_blocks, arg[1])
        /\ tres # OkRes => tres.kind = "InvalidBlock"

\* TwoPtrMine, after an earlier acceptance, accepted a value that is not the
\* sum of the smallest and the largest block, so a pointer had to move
C3_Witness ==
    /\ op = "try_extend_one"
    /\ tres = OkRes
    /\ W >= 3
    /\ tpre.total_blocks > W
    /\ LET obs == tpre.ordered_validation_blocks
       IN obs[1] + obs[W] # arg[1]

\* C4: the window always holds exactly W blocks, the last W of the initial
\* blocks followed by the accepted blocks; an accepted block drops the front
\* and is appended at the back.
C4_Window ==
    /\ Len(hm.validation_blocks) = W
    /\ Len(tm.validation_blocks) = W
    /\ hm.validation_blocks = LastN(hstream, W)
    /\ tm.validation_blocks = LastN(tstream, W)
    /\ (op = "try_extend_one" /\ hres = OkRes) =>
           hm.validation_blocks = Append(Tail(hpre.validation_blocks), arg[1])
    /\ (op = "try_extend_one" /\ tres = OkRes) =>
           tm.validation_blocks = Append(Tail(tpre.validation_blocks), arg[1])

\* more blocks have been accepted than the window holds, the last call being
\* a rejection: none of the initial blocks is left
C4_Witness ==
    /\ Len(hstream) >= 2 * W /\ Len(tstream) >= 2 * W
    /\ W >= 2
    /\ hres.kind = "InvalidBlock"

\* C5: a try_extend_one that returns InvalidBlock leaves window, support
\* index and total_blocks of the engine as they were before the call.
C5_NoMutationOnFailure ==
    op = "try_extend_one" =>
        /\ hres.kind = "InvalidBlock" => hm = hpre
        /\ tres.kind = "InvalidBlock" => tm = tpre

\* a rejection by both engines, of engines that have accepted blocks before
C5_Witness ==
    /\ op = "try_extend_one"
    /\ hres.kind = "InvalidBlock" /\ tres.kind = "InvalidBlock"
    /\ hpre.total_blocks > W /\ tpre.total_blocks > W
    /\ W >= 2

\* C6: total_blocks equals W plus the number of accepted blocks; an
\* InvalidBlock carries the offered value and the position W + (number of
\* blocks accepted before) + 1.
C6_ErrorPosition ==
    /\ hm.total_blocks = Len(hstream)
    /\ tm.total_blocks = Len(tstream)
    /\ (op = "try_extend_one" /\ hres.kind = "InvalidBlock") =>
           /\ hres.value = arg[1]
           /\ hres.position = Len(hstream) + 1
           /\ Len(hstream) = hpre.total_blocks
    /\ (op = "try_extend_one" /\ tres.kind = "InvalidBlock") =>
           /\ tres.value = arg[1]
           /\ tres.position = Len(tstream) + 1
           /\ Len(tstream) = tpre.total_blocks

\* a rejection at a position beyond W + 1
C6_Witness ==
    /\ op = "try_extend_one"
    /\ hres.kind = "InvalidBlock" /\ tres.kind = "InvalidBlock"
    /\ hres.position > W + 1 /\ tres.position > W + 1

\* C7: a try_extend that fails at values[k] returns what try_extend_one of
\* values[k] returns in the state reached by values[0..k-1], and leaves the
\* engine in that state.
C7_NoRollback ==
    op = "try_extend" =>
        /\ hres.kind = "InvalidBlock" =>
             \E k \in 0..(Len(arg) - 1) :
                /\ hm \in Run(hpre, SubSeq(arg, 1, k))
                /\ [mine |-> hm, res |-> hres] \in try_extend_one(hm, arg[k + 1])
        /\ tres.kind = "InvalidBlock" =>
             \E k \in 0..(Len(arg) - 1) :
                /\ tm \in Run(tpre, SubSeq(arg, 1, k))
                /\ [mine |-> tm, res |-> tres] \in try_extend_one(tm, arg[k + 1])

\* try_extend failed after having accepted a block that changed the window
C7_Witness ==
    /\ op = "try_extend"
    /\ hres.kind = "InvalidBlock" /\ tres.kind = "InvalidBlock"
    /\ hcons >= 2 /\ tcons >= 2
    /\ hm.validation_blocks # hpre.validation_blocks
    /\ tm.validation_blocks # tpre.validation_blocks

\* C8: try_extend returns Ok iff every value is accepted by try_extend_one
\* when they are applied in order; on the empty sequence it returns Ok and
\* changes nothing.
C8_ExtendOkIffAll ==
    op = "try_extend" =>
        /\ (hres = OkRes) <=> (Run(hpre, arg) # {})
        /\ (tres = OkRes) <=> (Run(tpre, arg) # {})
        /\ hres = OkRes => hm \in Run(hpre, arg)
        /\ tres = OkRes => tm \in Run(tpre, arg)
        /\ arg = <<>> => /\ hres = OkRes /\ tres = OkRes
                         /\ hm = hpre /\ tm = tpre

\* try_extend returned Ok on a sequence of at least two blocks
C8_Witness ==
    /\ op = "try_extend"
    /\ Len(arg) >= 2
    /\ hres = OkRes /\ tres = OkRes
    /\ hm.total_blocks = hpre.total_blocks + Len(arg)

\* C9: try_new succeeds on every sequence of at least W blocks, with the
\* first W blocks as the window, and fails with
\* InvalidInitializationBlocksSize only on fewer than W blocks.
C9_TryNewTakesPrefix ==
    op = "try_new" =>
        /\ Len(arg) >= W =>
             /\ hres = OkRes /\ tres = OkRes
             /\ hm.validation_blocks = SubSeq(arg, 1, W)
             /\ tm.validation_blocks = SubSeq(arg, 1, W)
        /\ hres = InvalidInitializationBlocksSize => Len(arg) < W
        /\ tres = InvalidInitializationBlocksSize => Len(arg) < W

\* C10: try_create_and_extend on fewer than W blocks returns
\* InvalidInitializationBlocksSize, never InvalidBlock or Ok.
C10_TooFewBlocks ==
    (op = "try_create_and_extend" /\ Len(arg) < W) =>
        /\ hres = InvalidInitializationBlocksSize
        /\ tres = InvalidInitializationBlocksSize

\* try_create_and_extend was called on a non-empty sequence shorter than W
C10_Witness ==
    /\ op = "try_create_and_extend"
    /\ Len(arg) >= 1 /\ Len(arg) < W
    /\ hres = InvalidInitializationBlocksSize
    /\ tres = InvalidInitializationBlocksSize

\* --------------------------------------------------- properties, continued
\* number of positions of s that hold x
Count(s, x) == Cardinality({k \in 1..Len(s) : s[k] = x})

\* s is in non-decreasing order
IsSorted(s) == \A k \in 1..(Len(s) - 1) : s[k] <= s[k + 1]

\* a and b hold the same values with the same multiplicities
IsPermutation(a, b) ==
    /\ Len(a) = Len(b)
    /\ \A k \in 1..Len(a) : Count(a, a[k]) = Count(b, a[k])

\* the pairs of positions i < j of window
PositionPairs(window) ==
    {pr \in (1..Len(window)) \X (1..Len(window)) : pr[1] < pr[2]}

\* the multiset { window[i] + window[j] : i < j }
PairSumBag(window) ==
    [sum \in {window[pr[1]] + window[pr[2]] : pr \in PositionPairs(window)} |->
        Cardinality({pr \in PositionPairs(window) :
                        window[pr[1]] + window[pr[2]] = sum})]

\* number of entries of a multiset, with multiplicities
RECURSIVE MsSizeOver(_, _)
MsSizeOver(ms, keys) ==
    IF keys = {} THEN 0
    ELSE LET x == CHOOSE y \in keys : TRUE
         IN ms[x] + MsSizeOver(ms, keys \ {x})

MsSize(ms) == MsSizeOver(ms, DOMAIN ms)

\* element p of stream, p > n, is the sum of two distinct elements among the
\* n elements before it
ConformsAt(stream, n, p) == HasPairSum(SubSeq(stream, p - n, p - 1), stream[p])

\* the stream of the tests example_with_simple_construction
ExampleBlocks ==
    <<35, 20, 15, 25, 47, 40, 62, 55, 65, 95, 102, 117, 150, 182, 127, 219,
      299, 277, 309, 576>>

Impls == {"HashMine", "TwoPtrMine"}

\* C11: on a sequence s of at least W blocks try_create_and_extend returns
\* what new(s[0..W-1]) followed by try_extend(s[W..]) returns: the first W
\* blocks are not validated, every later block is validated in order, and
\* exactly W blocks yield Ok.
C11_CreateAndExtend ==
    (op = "try_create_and_extend" /\ Len(arg) >= W) =>
        LET init == SubSeq(arg, 1, W)
            rest == SubSeq(arg, W + 1, Len(arg))
        IN /\ [mine |-> hm, res |-> hres, consumed |-> hcons]
                 \in try_extend(new("HashMine", init), rest)
           /\ [mine |-> tm, res |-> tres, consumed |-> tcons]
                 \in try_extend(new("TwoPtrMine", init), rest)
           /\ (hres = OkRes) <=> \A p \in (W + 1)..Len(arg) : ConformsAt(arg, W, p)
           /\ (tres = OkRes) <=> \A p \in (W + 1)..Len(arg) : ConformsAt(arg, W, p)
           /\ Len(arg) = W => (hres = OkRes /\ tres = OkRes)

\* Ok on a sequence whose first W blocks do not conform among themselves and
\* whose continuation has two blocks
C11_Witness ==
    /\ op = "try_create_and_extend"
    /\ W >= 3
    /\ Len(arg) = W + 2
    /\ ~HasPairSum(SubSeq(arg, 1, W - 1), arg[W])
    /\ hres = OkRes /\ tres = OkRes

\* C12: when try_create_and_extend(s) returns InvalidBlock(v, p), p is the
\* 1-based index in s of the first block after the initial W that is not the
\* sum of two distinct blocks among the W before it, and v = s[p]; the
\* example stream with W = 5 yields InvalidBlock(127, 15).
C12_OneShotPosition ==
    /\ \A res \in {hres, tres} :
         (op = "try_create_and_extend" /\ res.kind = "InvalidBlock") =>
            /\ res.position \in (W + 1)..Len(arg)
            /\ res.value = arg[res.position]
            /\ ~ConformsAt(arg, W, res.position)
            /\ \A q \in (W + 1)..(res.position - 1) : ConformsAt(arg, W, q)
    /\ \A impl \in Impls :
         {o.res : o \in try_create_and_extend(impl, 5, ExampleBlocks)}
            = {InvalidBlock(127, 15)}

\* InvalidBlock for a block that is not the first one after the initial W
C12_Witness ==
    /\ op = "try_create_and_extend"
    /\ W >= 2
    /\ hres.kind = "InvalidBlock" /\ tres.kind = "InvalidBlock"
    /\ hres.position = W + 2 /\ tres.position = W + 2

\* C13: new validates nothing: the window is the given blocks in the given
\* order, total_blocks is W, and the support index is the one of exactly
\* those blocks.
C13_NewNoValidation ==
    op = "new" =>
        /\ Len(arg) = W
        /\ hm.validation_blocks = arg /\ tm.validation_blocks = arg
        /\ hm.total_blocks = W /\ tm.total_blocks = W
        /\ hm.block_pair_sums = PairSumBag(arg)
        /\ IsSorted(tm.ordered_validation_blocks)
        /\ IsPermutation(tm.ordered_validation_blocks, arg)

\* engines built from blocks that are out of order and of which the last is
\* not a sum of two others
C13_Witness ==
    /\ op = "new"
    /\ W >= 3
    /\ ~IsSorted(arg)
    /\ ~HasPairSum(SubSeq(arg, 1, W - 1), arg[W])
    /\ hm.impl = "HashMine" /\ tm.impl = "TwoPtrMine"

\* C14: a value x in two or more window positions makes 2x acceptable; a
\* value x in exactly one position makes 2x acceptable only through another
\* pair of distinct positions; window [2,2,2,2] accepts 4, rejects 6 and 8.
C14_DistinctSlots ==
    /\ op = "try_extend_one" =>
         \A e \in {<<hpre.validation_blocks, hres>>, <<tpre.validation_blocks, tres>>} :
            \A k \in 1..Len(e[1]) :
               LET x == e[1][k]
               IN 2 * x = arg[1] =>
                    /\ Count(e[1], x) >= 2 => e[2] = OkRes
                    /\ (Count(e[1], x) = 1 /\ e[2] = OkRes) =>
                          \E i, j \in 1..Len(e[1]) :
                             /\ i # j /\ i # k /\ j # k
                             /\ e[1][i] + e[1][j] = arg[1]
    /\ \A impl \in Impls :
         LET m == new(impl, <<2, 2, 2, 2>>)
         IN /\ {o.res : o \in try_extend_one(m, 4)} = {OkRes}
            /\ {o.res : o \in try_extend_one(m, 6)} = {InvalidBlock(6, 5)}
            /\ {o.res : o \in try_extend_one(m, 8)} = {InvalidBlock(8, 5)}

\* both engines rejected twice a non-zero value that the window holds once
C14_Witness ==
    /\ op = "try_extend_one"
    /\ W >= 2
    /\ \E k \in 1..W :
         /\ hpre.validation_blocks[k] > 0
         /\ 2 * hpre.validation_blocks[k] = arg[1]
         /\ Count(hpre.validation_blocks, hpre.validation_blocks[k]) = 1
    /\ hres.kind = "InvalidBlock" /\ tres.kind = "InvalidBlock"

\* 0-based index of the first block of blocks that try_extend_one rejects
\* when the blocks are offered in order to m; Len(blocks) if there is none
FirstRejected(m, blocks) ==
    LET bad == {k \in 0..(Len(blocks) - 1) : Run(m, SubSeq(blocks, 1, k + 1)) = {}}
    IN IF bad = {} THEN Len(blocks)
       ELSE CHOOSE k \in bad : \A l \in bad : k <= l

\* C17: try_extend pulls the blocks one at a time and none past the first
\* rejected one: failing at the k-th block (0-based) it has consumed exactly
\* k + 1 blocks, the later ones being neither pulled nor offered.
C17_LazyConsumption ==
    op = "try_extend" =>
        /\ hres.kind = "InvalidBlock" => hcons = FirstRejected(hpre, arg) + 1
        /\ tres.kind = "InvalidBlock" => tcons = FirstRejected(tpre, arg) + 1
        /\ hres = OkRes => hcons = Len(arg)
        /\ tres = OkRes => tcons = Len(arg)
        /\ hcons <= Len(arg) /\ tcons <= Len(arg)

\* try_extend failed on a block that was not the last of its input
C17_Witness ==
    /\ op = "try_extend"
    /\ hres.kind = "InvalidBlock" /\ tres.kind = "InvalidBlock"
    /\ hcons < Len(arg) /\ tcons < Len(arg)

\* C19: block_pair_sums is, with multiplicities, the multiset of the sums
\* window[i] + window[j], i < j: it has W(W-1)/2 entries and is the multiset
\* new builds from the current window.
C19_PairSumMultiset ==
    /\ hm.block_pair_sums = PairSumBag(hm.validation_blocks)
    /\ MsSize(hm.block_pair_sums) = (W * (W - 1)) \div 2
    /\ hm.block_pair_sums = HashNew(hm.validation_blocks).block_pair_sums

\* an accepted block evicted a block one of whose sums occurred twice
C19_Witness ==
    /\ op = "try_extend_one"
    /\ hres = OkRes
    /\ W >= 3
    /\ LET w == hpre.validation_blocks
       IN hpre.block_pair_sums[w[1] + w[2]] >= 2
    /\ hm.block_pair_sums # hpre.block_pair_sums

\* C20: ordered_validation_blocks is sorted in non-decreasing order, has W
\* elements and is a permutation of the window; evicting a value that occurs
\* k times leaves k - 1 occurrences of it (plus the new block if equal).
C20_SortedCopy ==
    /\ IsSorted(tm.ordered_validation_blocks)
    /\ Len(tm.ordered_validation_blocks) = W
    /\ IsPermutation(tm.ordered_validation_blocks, tm.validation_blocks)
    /\ (op = "try_extend_one" /\ tres = OkRes) =>
          LET old == Head(tpre.validation_blocks)
          IN Count(tm.ordered_validation_blocks, old)
               = Count(tpre.validation_blocks, old) - 1
                   + (IF arg[1] = old THEN 1 ELSE 0)

\* an accepted block evicted a value the window held more than once
C20_Witness ==
    /\ op = "try_extend_one"
    /\ tres = OkRes
    /\ Count(tpre.validation_blocks, Head(tpre.validation_blocks)) >= 2
    /\ arg[1] # Head(tpre.validation_blocks)
    /\ tpre.total_blocks > W

\* C15: a try_extend_one(v) that returned InvalidBlock(v, p) returns the
\* same InvalidBlock(v, p) when it is called again with v, no other call in
\* between, any number of times.
C15_IdempotentDetection ==
    [][(op = "try_extend_one" /\ op' = "try_extend_one" /\ arg' = arg) =>
          /\ hres.kind = "InvalidBlock" => hres' = hres
          /\ tres.kind = "InvalidBlock" => tres' = tres]_vars

\* a rejected value was offered again, to engines that had accepted blocks
C15_Witness ==
    /\ again
    /\ op = "try_extend_one"
    /\ hres.kind = "InvalidBlock" /\ tres.kind = "InvalidBlock"
    /\ hpre.total_blocks > W /\ tpre.total_blocks > W

C18_Smoke2 ==
    op = "try_extend" => (hres = OkRes /\ tres = OkRes)

\* one try_extend with all the W - 1 blocks returned Ok, W >= 5
C18_Witness ==
    /\ op = "try_extend"
    /\ W >= 5
    /\ hpre.validation_blocks = Iota(W) /\ tpre.validation_blocks = Iota(W)
    /\ arg = [i \in 1..(W - 1) |-> 2 * i + 1]
    /\ hres = OkRes /\ tres = OkRes

\* value is the sum, in the block type, of the blocks at two distinct
\* positions of window
HasBlockPairSum(window, value) ==
    \E i, j \in 1..Len(window) : i # j /\ BlockAdd(window[i], window[j]) = value

\* C21: over a block type whose addition wraps modulo 2^w, TwoPtrMine's
\* try_extend_one still accepts a value iff two distinct window positions
\* sum (mod 2^w) to it, and so agrees with HashMine.
C21_WrappingExact ==
    op = "try_extend_one" =>
        /\ (tres = OkRes) <=> HasBlockPairSum(tpre.validation_blocks, arg[1])
        /\ tres = hres

\* C22: every way of leaving the scan loop of TwoPtrMine::try_extend_one
\* without a matching pair yields InvalidBlock and no state change, W = 0
\* included; the update path is entered only after a pair was found.
C22_LoopExits ==
    op = "try_extend_one" =>
        LET obs == tpre.ordered_validation_blocks
            scan == Scan(obs, 1, Len(obs), arg[1], 0)
        IN /\ scan.exit # "break" =>
                /\ tres = InvalidBlock(arg[1], tpre.total_blocks + 1)
                /\ tm = tpre
           /\ tm # tpre =>
                /\ scan.exit = "break"
                /\ BlockAdd(obs[scan.i], obs[scan.j]) = arg[1]

\* C23: for W >= 2 and any W initial values, the stream in which every
\* further value is the sum of the two oldest blocks of the window is accepted
\* in full by both engines: try_create_and_extend returns Ok on it.
C23_SelfGenerated ==
    op = "try_create_and_extend" =>
        /\ hres = OkRes
        /\ tres = OkRes
        /\ hstream = arg
        /\ tstream = arg
        /\ hm.total_blocks = Len(arg)
        /\ tm.total_blocks = Len(arg)

C23_Witness ==
    /\ op = "try_create_and_extend"
    /\ W = MaxW
    /\ Len(arg) = W + MaxGen
    /\ arg[Len(arg)] > arg[W + 1]
    /\ arg[1] > arg[2]
    /\ tres = OkRes
    /\ tm.validation_blocks = LastN(arg, W)

\* C24: in TwoPtrMine::try_extend_one the binary search for the evicted
\* block always finds it: it returns Ok(idx) with the evicted block at idx of
\* the sorted copy, the fallback index is never used (no panic, no removal of
\* another block), and the block removed from the sorted copy is the block
\* popped from the window.
C24_EvictedFound ==
    /\ tres.kind # "Panic"
    /\ \A r \in BinarySearch(tm.ordered_validation_blocks,
                            Head(tm.validation_blocks)) :
          /\ r.found
          /\ tm.ordered_validation_blocks[r.idx] = Head(tm.validation_blocks)
    /\ (op = "try_extend_one" /\ tres = OkRes) =>
          LET old_block == Head(tpre.validation_blocks)
              obs == tpre.ordered_validation_blocks
          IN /\ \A r \in BinarySearch(obs, old_block) :
                   r.found /\ obs[r.idx] = old_block
             /\ \A x \in Vals \cup {arg[1]} :
                   Count(tm.ordered_validation_blocks, x) =
                       Count(obs, x) - (IF x = old_block THEN 1 ELSE 0)
                                     + (IF x = arg[1] THEN 1 ELSE 0)

\* an accepted block evicted a block that is neither the smallest nor the
\* largest of the sorted copy and that occurs in it twice
C24_Witness ==
    /\ op = "try_extend_one"
    /\ tres = OkRes
    /\ tpre.total_blocks > W
    /\ LET old_block == Head(tpre.validation_blocks)
           obs == tpre.ordered_validation_blocks
       IN /\ old_block # arg[1]
          /\ obs[1] < old_block
          /\ \E k \in 1..(W - 1) : obs[k] = old_block /\ obs[k + 1] = old_block

\* C25: for W >= 1 the scan of TwoPtrMine::try_extend_one terminates: the
\* gap j - i starts at W - 1 and shrinks by one with every pointer move, and
\* the loop ends after at most W - 1 moves with a matching pair at i < j or
\* with i = j; the indices never pass each other and no iterator is
\* exhausted.
C25_ScanTerminates ==
    op = "try_extend_one" =>
        LET obs == tpre.ordered_validation_blocks
            scan == Scan(obs, 1, Len(obs), arg[1], 0)
        IN /\ Len(obs) = W
           /\ scan.exit \in {"break", "err"}
           /\ scan.moves <= W - 1
           /\ scan.j - scan.i = (W - 1) - scan.moves
           /\ 1 <= scan.i /\ scan.i <= scan.j /\ scan.j <= W
           /\ scan.exit = "break" => scan.i < scan.j
           /\ scan.exit = "err" => scan.i = scan.j
           /\ scan.exit = "err" <=> tres.kind = "InvalidBlock"

\* a scan that moved both pointers and met after W - 1 moves, strictly
\* inside the sorted copy
C25_Witness ==
    /\ op = "try_extend_one"
    /\ W = MaxW
    /\ tpre.total_blocks > W
    /\ tres.kind = "InvalidBlock"
    /\ LET obs == tpre.ordered_validation_blocks
           scan == Scan(obs, 1, Len(obs), arg[1], 0)
       IN /\ scan.moves = W - 1
          /\ 1 < scan.i /\ scan.j < W

\* C26: with W = 1 both engines accept nothing: every try_extend_one(v)
\* returns InvalidBlock(v, 2) and the state never changes.
C26_WindowOfOne ==
    W = 1 =>
        /\ hm.total_blocks = 1 /\ tm.total_blocks = 1
        /\ hm = hpre /\ tm = tpre
        /\ hstream = hm.validation_blocks /\ tstream = tm.validation_blocks
        /\ hm.block_pair_sums = EmptyMs
        /\ tm.ordered_validation_blocks = tm.validation_blocks
        /\ op = "try_extend_one" =>
              /\ hres = InvalidBlock(arg[1], 2)
              /\ tres = InvalidBlock(arg[1], 2)
        /\ op = "try_extend" =>
              IF arg = <<>>
              THEN hres = OkRes /\ tres = OkRes
              ELSE /\ hres = InvalidBlock(arg[1], 2)
                   /\ tres = InvalidBlock(arg[1], 2)

\* with W = 1, twice the single window block was offered for the second time
C26_Witness ==
    /\ W = 1
    /\ op = "try_extend_one"
    /\ again
    /\ arg[1] > 0
    /\ arg[1] = 2 * hpre.validation_blocks[1]
    /\ arg[1] = 2 * tpre.validation_blocks[1]
    /\ hres = InvalidBlock(arg[1], 2)
    /\ tres = InvalidBlock(arg[1], 2)

\* the sequences that hold the elements of s in another (or the same) order
Rearrangements(s) ==
    {[k \in 1..Len(s) |-> s[f[k]]] :
        f \in {g \in [1..Len(s) -> 1..Len(s)] :
                  \A a, b \in 1..Len(s) : g[a] = g[b] => a = b}}

\* the kinds of result try_extend_one(v) can return on m
ResultKinds(m, v) == {out.res.kind : out \in try_extend_one(m, v)}

\* C27: the accept decision depends only on the multiset of window values:
\* an engine reached by any sequence of operations and an engine of the same
\* kind whose window holds the same values in another order return the same
\* kind of result (Ok or InvalidBlock) from try_extend_one for every value.
C27_OrderIrrelevant ==
    \A p \in Rearrangements(hm.validation_blocks) :
       \A v \in 0..(2 * MaxVal) :
          /\ ResultKinds(new("HashMine", p), v) = ResultKinds(hm, v)
          /\ ResultKinds(new("TwoPtrMine", p), v) = ResultKinds(tm, v)
          /\ Cardinality(ResultKinds(hm, v)) = 1
          /\ ResultKinds(hm, v) = ResultKinds(tm, v)

\* engines that have accepted blocks hold a window of three different values
\* in neither ascending nor descending order, and would accept some values
\* and reject others
C27_Witness ==
    /\ W >= 3
    /\ hm.total_blocks > W /\ tm.total_blocks > W
    /\ tm.validation_blocks = hm.validation_blocks
    /\ Cardinality({hm.validation_blocks[k] : k \in 1..W}) = W
    /\ ~IsSorted(hm.validation_blocks)
    /\ hm.validation_blocks[1] < hm.validation_blocks[W]
    /\ \E v \in 0..(2 * MaxVal) : ResultKinds(tm, v) = {"Ok"}
    /\ \E v \in 0..(2 * MaxVal) : ResultKinds(tm, v) = {"InvalidBlock"}

====
